---------------------------- MODULE Spec2Model ----------------------------
(***************************************************************************)
(* Model of docs/examples/frameworks/tensorflow/                           *)
(* tensorflow-various-readers.ipynb: the index-file setup cell, the four   *)
(* pipeline classes, get_batch_test_dali and the self-test loop.           *)
(*                                                                         *)
(* Label values are numbers counted in halves (so that a non-integral      *)
(* label exists) or NaN: <<"num", h>> stands for h/2, <<"nan", 0>> for NaN.*)
(* A label batch (one numpy array) is the set of distinct values in it.    *)
(* Python lists are sequences: list index d is sequence index d + 1.       *)
(***************************************************************************)
EXTENDS Integers, Sequences, FiniteSets, TLC

\* ---- global constants (first code cell)
N == 8
BATCH_SIZE == 128
ITERATIONS == 32

\* ---- bounds of the model
\* distinct values in one label batch
MaxDistinct == 2
\* executions of the index-setup cell
MaxExecutions == 6

VARIABLES
    \* self-test cell
    pc,          \* position in the self-test cell
    t,           \* index in pipe_types of the current pipe_name (0: none yet)
    pipes,       \* the pipes list built by the last get_batch_test_dali
    test_batch,  \* [images, labels] returned by get_batch_test_dali
    i,           \* iterations of "for i in range(ITERATIONS)" completed
    k,           \* labels of the current run that passed the assertions
    label,       \* the label batch last taken by "for label in labels"
    err,         \* the assertion that raised ("none" when none did)
    open,        \* the sessions (by pipe type index) that are open
    out,         \* the lines printed
    runs,        \* history: sess.run calls of the current pipe type
    total,       \* history: sess.run calls of the whole cell
    checked,     \* history: label batches of the last run taken by the loop
    taken,       \* history: label batches taken for the current pipe type
    seen,        \* history: label values taken for the current pipe type
    \* index-setup cell
    ipc,         \* position in the index-setup cell
    idx_dir,     \* what "idx_files" is: "absent", "dir" or "file"
    idx_kind,    \* what "idx_files/train.idx" is: "absent", "file" or "dir"
    idx_gen,     \* which invocation wrote the index file (0: none of them)
    execs,       \* executions of the cell started
    calls,       \* history: invocations of the tfrecord2idx script
    created,     \* history: invocations that produced the index file
    ev,          \* history: what the current execution did, in order
    dir0,        \* history: idx_dir when the current execution started
    kind0,       \* history: idx_kind when the current execution started
    gen0         \* history: idx_gen when the current execution started

testVars == <<pc, t, pipes, test_batch, i, k, label, err, open, out,
              runs, total, checked, taken, seen>>
idxVars == <<ipc, idx_dir, idx_kind, idx_gen, execs, calls, created, ev,
             dir0, kind0, gen0>>
vars == <<testVars, idxVars>>

-----------------------------------------------------------------------------
\* ---- label values and the numpy operations of the assertions

Num(h) == <<"num", h>>
NaN == <<"nan", 0>>
\* the integer n as a label value
Whole(n) == Num(2 * n)

\* np.mod(x, 1): the remainder has the sign of the divisor; NaN stays NaN
np_mod1(x) == IF x[1] = "nan" THEN NaN ELSE Num(x[2] % 2)

\* np.equal(x, 0): NaN equals nothing
np_equal0(x) == x[1] = "num" /\ x[2] = 0

\* x >= n and x <= n for an integer n: every comparison with NaN is False
np_ge(x, n) == x[1] = "num" /\ x[2] >= 2 * n
\* variant: the upper-bound comparison left out
np_le_NoCheck(x, n) == TRUE
np_le(x, n) == x[1] = "num" /\ x[2] <= 2 * n

\* ndarray.all() of an elementwise result (the set of its distinct values)
np_all(tests) == \A v \in tests : v

\* The three assertions on one label batch, in order: the first that fails.
FailedAssert(b, rng) ==
    IF ~np_all({np_equal0(np_mod1(x)) : x \in b}) THEN "integral"
    ELSE IF ~np_all({np_ge(x, rng[1]) : x \in b}) THEN "lower"
    ELSE IF ~np_all({np_le(x, rng[2]) : x \in b}) THEN "upper"
    ELSE "none"

\* What sess.run is taken to return in a label tensor of a dtype, for a pipe
\* type of range rng: the integers on both sides of each bound; a float tensor
\* also a fraction inside the range and NaN.
LabelValues(dtype, rng) ==
    LET lo == rng[1]
        hi == rng[2]
    IN  {Whole(lo - 1), Whole(lo), Whole(hi), Whole(hi + 1)}
        \cup (IF dtype = "float32" THEN {Num(2 * lo + 1), NaN} ELSE {})
Batches(dtype, rng) ==
    {b \in SUBSET LabelValues(dtype, rng) :
        b # {} /\ Cardinality(b) <= MaxDistinct}

-----------------------------------------------------------------------------
\* ---- the pipeline classes

\* one DALI operator instance with its keyword options
Op(name, device) == [op |-> name, device |-> device]

\* a data node: the operator that produced it, which of the operator's
\* outputs it is, the positional inputs and the named (argument) inputs
Node(op, o, in, named) == [op |-> op.op, out |-> o, in |-> in, named |-> named]

CommonPipeline(batch_size, num_threads, device_id) ==
    [batch_size |-> batch_size, num_threads |-> num_threads,
     device_id |-> device_id,
     decode |-> Op("ImageDecoder", "mixed"),
     resize |-> Op("Resize", "gpu"),
     cmn |-> Op("CropMirrorNormalize", "gpu"),
     uniform |-> Op("Uniform", "cpu"),
     resize_rng |-> Op("Uniform", "cpu")]

\* labels.gpu(): the transfer of a data node to the GPU
gpu(node) == [op |-> "gpu()", out |-> "0", in |-> <<node>>, named |-> <<>>]

\* variant: resize applied before decode
base_define_graph_ResizeFirst(self, inputs, labels) ==
    LET images1 == Node(self.base.resize, "0", <<inputs>>,
                        <<Node(self.base.resize_rng, "0", <<>>, <<>>)>>)
        images2 == Node(self.base.decode, "0", <<images1>>, <<>>)
        output == Node(self.base.cmn, "0", <<images2>>,
                       <<Node(self.base.uniform, "0", <<>>, <<>>),
                         Node(self.base.uniform, "0", <<>>, <<>>)>>)
    IN  <<output, gpu(labels)>>
base_define_graph(self, inputs, labels) ==
    LET images1 == Node(self.base.decode, "0", <<inputs>>, <<>>)
        images2 == Node(self.base.resize, "0", <<images1>>,
                        <<Node(self.base.resize_rng, "0", <<>>, <<>>)>>)
        output == Node(self.base.cmn, "0", <<images2>>,
                       <<Node(self.base.uniform, "0", <<>>, <<>>),
                         Node(self.base.uniform, "0", <<>>, <<>>)>>)
    IN  <<output, gpu(labels)>>

\* variant: every pipeline reads shard 0
MXNetReaderPipeline_Shard0(batch_size, num_threads, device_id, num_gpus) ==
    [cls |-> "MXNetReaderPipeline",
     base |-> CommonPipeline(batch_size, num_threads, device_id),
     input |-> [op |-> "MXNetReader", random_shuffle |-> TRUE,
                shard_id |-> 0, num_shards |-> num_gpus]]
MXNetReaderPipeline(batch_size, num_threads, device_id, num_gpus) ==
    [cls |-> "MXNetReaderPipeline",
     base |-> CommonPipeline(batch_size, num_threads, device_id),
     input |-> [op |-> "MXNetReader", random_shuffle |-> TRUE,
                shard_id |-> device_id, num_shards |-> num_gpus]]

MXNetReaderPipeline_define_graph(self) ==
    LET images == Node(self.input, "0", <<>>, <<>>)
        labels == Node(self.input, "1", <<>>, <<>>)
    IN  base_define_graph(self, images, labels)

CaffeReadPipeline(batch_size, num_threads, device_id, num_gpus) ==
    [cls |-> "CaffeReadPipeline",
     base |-> CommonPipeline(batch_size, num_threads, device_id),
     input |-> [op |-> "CaffeReader", random_shuffle |-> TRUE,
                shard_id |-> device_id, num_shards |-> num_gpus]]

CaffeReadPipeline_define_graph(self) ==
    LET images == Node(self.input, "0", <<>>, <<>>)
        labels == Node(self.input, "1", <<>>, <<>>)
    IN  base_define_graph(self, images, labels)

FileReadPipeline(batch_size, num_threads, device_id, num_gpus) ==
    [cls |-> "FileReadPipeline",
     base |-> CommonPipeline(batch_size, num_threads, device_id),
     input |-> [op |-> "FileReader", file_root |-> "image_dir"]]

FileReadPipeline_define_graph(self) ==
    LET images == Node(self.input, "0", <<>>, <<>>)
        labels == Node(self.input, "1", <<>>, <<>>)
    IN  base_define_graph(self, images, labels)

TFRecordPipeline(batch_size, num_threads, device_id, num_gpus) ==
    [cls |-> "TFRecordPipeline",
     base |-> CommonPipeline(batch_size, num_threads, device_id),
     input |-> [op |-> "TFRecordReader", path |-> "tfrecord",
                index_path |-> "tfrecord_idx",
                features |-> {"image/encoded", "image/class/label"}]]

TFRecordPipeline_define_graph(self) ==
    LET images == Node(self.input, "image/encoded", <<>>, <<>>)
        labels == Node(self.input, "image/class/label", <<>>, <<>>)
    IN  base_define_graph(self, images, labels)

\* pipe_name(batch_size=..., num_threads=..., device_id=..., num_gpus=...)
\* for the class named cls
NewPipeline(cls, batch_size, num_threads, device_id, num_gpus) ==
    CASE cls = "MXNetReaderPipeline" ->
           MXNetReaderPipeline(batch_size, num_threads, device_id, num_gpus)
      [] cls = "CaffeReadPipeline" ->
           CaffeReadPipeline(batch_size, num_threads, device_id, num_gpus)
      [] cls = "FileReadPipeline" ->
           FileReadPipeline(batch_size, num_threads, device_id, num_gpus)
      [] cls = "TFRecordPipeline" ->
           TFRecordPipeline(batch_size, num_threads, device_id, num_gpus)

\* self.define_graph() of a pipeline object
define_graph(self) ==
    CASE self.cls = "MXNetReaderPipeline" -> MXNetReaderPipeline_define_graph(self)
      [] self.cls = "CaffeReadPipeline" -> CaffeReadPipeline_define_graph(self)
      [] self.cls = "FileReadPipeline" -> FileReadPipeline_define_graph(self)
      [] self.cls = "TFRecordPipeline" -> TFRecordPipeline_define_graph(self)

-----------------------------------------------------------------------------
\* ---- get_batch_test_dali

\* daliop(pipeline=..., shapes=..., dtypes=..., device_id=...) called under
\* tf.device('/gpu:%i' % placed): the image and the label tensor
daliop(pipeline, dtypes, device_id, placed) ==
    <<[tensor |-> "image", pipeline |-> pipeline, dtype |-> dtypes[1],
       device_id |-> device_id, placed |-> placed],
      [tensor |-> "label", pipeline |-> pipeline, dtype |-> dtypes[2],
       device_id |-> device_id, placed |-> placed]>>

\* the list comprehension building pipes
\* variant: every pipeline built for device 0
BuildPipes_Device0(pipe_name, batch_size) ==
    [j \in 1..N |-> NewPipeline(pipe_name, batch_size, 2, 0, N)]
BuildPipes(pipe_name, batch_size) ==
    [j \in 1..N |-> NewPipeline(pipe_name, batch_size, 2, j - 1, N)]

\* "for d in range(N)" from d on, appending to images and labels
RECURSIVE BuildOutputs(_, _, _, _, _)
BuildOutputs(d, ps, label_type, images, labels) ==
    IF d >= N THEN <<images, labels>>
    ELSE LET r == daliop(ps[d + 1], <<"int32", label_type>>, d, d)
         IN  BuildOutputs(d + 1, ps, label_type,
                          Append(images, r[1]), Append(labels, r[2]))

get_batch_test_dali(batch_size, pipe_type) ==
    LET ps == BuildPipes(pipe_type[1], batch_size)
    IN  [pipes |-> ps,
         result |-> BuildOutputs(0, ps, pipe_type[2], <<>>, <<>>)]

-----------------------------------------------------------------------------
\* ---- the self-test cell

\* variant: the first two pipe types in the other order
pipe_types_Swapped ==
    << <<"CaffeReadPipeline", "int32", <<0, 999>> >>,
       <<"MXNetReaderPipeline", "float32", <<0, 999>> >>,
       <<"FileReadPipeline", "int32", <<0, 1>> >>,
       <<"TFRecordPipeline", "int64", <<1, 1000>> >> >>
pipe_types ==
    << <<"MXNetReaderPipeline", "float32", <<0, 999>> >>,
       <<"CaffeReadPipeline", "int32", <<0, 999>> >>,
       <<"FileReadPipeline", "int32", <<0, 1>> >>,
       <<"TFRecordPipeline", "int64", <<1, 1000>> >> >>

\* the loop variable of "for pipe_name in pipe_types"
pipe_name == pipe_types[t]

\* "RUN: " + name and "OK : " + name
RunLine(name) == <<"RUN: ", name>>
OkLine(name) == <<"OK : ", name>>

TestInit ==
    /\ pc = "for_pipe"
    /\ t = 0
    /\ pipes = <<>>
    /\ test_batch = <<>>
    /\ i = 0
    /\ k = 0
    /\ label = {}
    /\ err = "none"
    /\ open = {}
    /\ out = <<>>
    /\ runs = 0
    /\ total = 0
    /\ checked = 0
    /\ taken = 0
    /\ seen = {}

\* for pipe_name in pipe_types: print("RUN: " + pipe_name[0].__name__)
PrintRun ==
    /\ pc = "for_pipe"
    /\ t < Len(pipe_types)
    /\ t' = t + 1
    /\ out' = Append(out, RunLine(pipe_types[t + 1][1]))
    /\ runs' = 0
    /\ taken' = 0
    /\ seen' = {}
    /\ pc' = "get_batch"
    /\ UNCHANGED <<pipes, test_batch, i, k, label, err, open, total, checked>>
    /\ UNCHANGED idxVars

\* test_batch = get_batch_test_dali(BATCH_SIZE, pipe_name); the placeholder
\* and the session config that follow hold no state of the model
GetBatch ==
    /\ pc = "get_batch"
    /\ LET r == get_batch_test_dali(BATCH_SIZE, pipe_name)
       IN  /\ pipes' = r.pipes
           /\ test_batch' = r.result
    /\ pc' = "with_enter"
    /\ UNCHANGED <<t, i, k, label, err, open, out, runs, total, checked,
                   taken, seen>>
    /\ UNCHANGED idxVars

\* with Session(config=config) as sess:
SessionEnter ==
    /\ pc = "with_enter"
    /\ open' = open \cup {t}
    /\ i' = 0
    /\ pc' = "for_i"
    /\ UNCHANGED <<t, pipes, test_batch, k, label, err, out, runs, total,
                   checked, taken, seen>>
    /\ UNCHANGED idxVars

\* for i in range(ITERATIONS): imgs, labels = sess.run(test_batch)
\* The labels list has one batch per tensor of test_batch[1]; the batch at
\* an index is an external value, fixed when the inner loop takes it.
\* variant: the for-i loop off by one
SessRun_OneMore ==
    /\ pc = "for_i"
    /\ i <= ITERATIONS
    /\ runs' = runs + 1
    /\ total' = total + 1
    /\ k' = 0
    /\ checked' = 0
    /\ pc' = "for_label"
    /\ UNCHANGED <<t, pipes, test_batch, i, label, err, open, out, taken,
                   seen>>
    /\ UNCHANGED idxVars
SessRun ==
    /\ pc = "for_i"
    /\ i < ITERATIONS
    /\ runs' = runs + 1
    /\ total' = total + 1
    /\ k' = 0
    /\ checked' = 0
    /\ pc' = "for_label"
    /\ UNCHANGED <<t, pipes, test_batch, i, label, err, open, out, taken,
                   seen>>
    /\ UNCHANGED idxVars

\* for label in labels: the three assertions on the next label batch
\* variant: a failed assertion does not raise
CheckLabel_Swallow ==
    /\ pc = "for_label"
    /\ k < Len(test_batch[2])
    /\ \E b \in Batches(test_batch[2][k + 1].dtype, pipe_name[3]) :
          /\ label' = b
          /\ seen' = seen \cup b
          /\ checked' = checked + 1
          /\ taken' = taken + 1
          /\ err' = FailedAssert(b, pipe_name[3])
          /\ k' = k + 1
          /\ pc' = pc
    /\ UNCHANGED <<t, pipes, test_batch, i, open, out, runs, total>>
    /\ UNCHANGED idxVars
CheckLabel ==
    /\ pc = "for_label"
    /\ k < Len(test_batch[2])
    /\ \E b \in Batches(test_batch[2][k + 1].dtype, pipe_name[3]) :
          /\ label' = b
          /\ seen' = seen \cup b
          /\ checked' = checked + 1
          /\ taken' = taken + 1
          /\ err' = FailedAssert(b, pipe_name[3])
          /\ IF err' = "none"
             THEN k' = k + 1 /\ pc' = pc
             ELSE k' = k /\ pc' = "raise"
    /\ UNCHANGED <<t, pipes, test_batch, i, open, out, runs, total>>
    /\ UNCHANGED idxVars

\* the labels list is exhausted: the next iteration of the for-i loop
LabelsDone ==
    /\ pc = "for_label"
    /\ k >= Len(test_batch[2])
    /\ i' = i + 1
    /\ pc' = "for_i"
    /\ UNCHANGED <<t, pipes, test_batch, k, label, err, open, out, runs,
                   total, checked, taken, seen>>
    /\ UNCHANGED idxVars

\* the with block ends normally: Session.__exit__ closes the session
SessionExit ==
    /\ pc = "for_i"
    /\ i >= ITERATIONS
    /\ open' = open \ {t}
    /\ pc' = "print_ok"
    /\ UNCHANGED <<t, pipes, test_batch, i, k, label, err, out, runs, total,
                   checked, taken, seen>>
    /\ UNCHANGED idxVars

\* an AssertionError leaves the with block: Session.__exit__ closes the
\* session, nothing catches the exception and the cell ends with it
\* variant: the exception leaves the session open
SessionExitRaise_Leak ==
    /\ pc = "raise"
    /\ pc' = "aborted"
    /\ UNCHANGED <<t, pipes, test_batch, i, k, label, err, open, out, runs,
                   total, checked, taken, seen>>
    /\ UNCHANGED idxVars
SessionExitRaise ==
    /\ pc = "raise"
    /\ open' = open \ {t}
    /\ pc' = "aborted"
    /\ UNCHANGED <<t, pipes, test_batch, i, k, label, err, out, runs, total,
                   checked, taken, seen>>
    /\ UNCHANGED idxVars

\* print("OK : " + pipe_name[0].__name__)
PrintOk ==
    /\ pc = "print_ok"
    /\ out' = Append(out, OkLine(pipe_name[1]))
    /\ pc' = "for_pipe"
    /\ UNCHANGED <<t, pipes, test_batch, i, k, label, err, open, runs, total,
                   checked, taken, seen>>
    /\ UNCHANGED idxVars

\* pipe_types is exhausted: the cell ends
CellEnd ==
    /\ pc = "for_pipe"
    /\ t >= Len(pipe_types)
    /\ pc' = "done"
    /\ UNCHANGED <<t, pipes, test_batch, i, k, label, err, open, out, runs,
                   total, checked, taken, seen>>
    /\ UNCHANGED idxVars

-----------------------------------------------------------------------------
\* ---- the index-setup cell

\* os.path.exists(path): anything at the path
os_path_exists(what) == what # "absent"

\* os.path.isfile(path): a regular file at the path
\* variant: the index file is never found
os_path_isfile_Never(what) == FALSE
os_path_isfile(what) == what = "file"

\* the file system before the cell is first executed: train.idx can be
\* there only inside a directory idx_files
IdxInit ==
    /\ ipc = "idle"
    /\ idx_dir \in {"absent", "dir", "file"}
    /\ idx_kind \in {"absent", "file", "dir"}
    /\ idx_dir # "dir" => idx_kind = "absent"
    /\ idx_gen = 0
    /\ execs = 0
    /\ calls = 0
    /\ created = 0
    /\ ev = <<>>
    /\ dir0 = idx_dir
    /\ kind0 = idx_kind
    /\ gen0 = 0

\* the cell is executed (again)
CellStart ==
    /\ ipc = "idle"
    /\ execs < MaxExecutions
    /\ execs' = execs + 1
    /\ ev' = <<>>
    /\ dir0' = idx_dir
    /\ kind0' = idx_kind
    /\ gen0' = idx_gen
    /\ ipc' = "if_dir"
    /\ UNCHANGED <<idx_dir, idx_kind, idx_gen, calls, created>>
    /\ UNCHANGED testVars

\* if not os.path.exists("idx_files"): os.mkdir("idx_files")
IfDir ==
    /\ ipc = "if_dir"
    /\ IF ~os_path_exists(idx_dir)
       THEN /\ ev' = Append(ev, "mkdir")
            /\ idx_dir' = "dir"
       ELSE /\ ev' = ev
            /\ idx_dir' = idx_dir
    /\ ipc' = "if_file"
    /\ UNCHANGED <<idx_kind, idx_gen, execs, calls, created, dir0, kind0, gen0>>
    /\ UNCHANGED testVars

\* if not os.path.isfile(tfrecord_idx): the index file is there, no call
IfFileSkip ==
    /\ ipc = "if_file"
    /\ os_path_isfile(idx_kind)
    /\ ipc' = "idle"
    /\ UNCHANGED <<idx_dir, idx_kind, idx_gen, execs, calls, created, ev,
                   dir0, kind0, gen0>>
    /\ UNCHANGED testVars

\* call([tfrecord2idx_script, tfrecord, tfrecord_idx]): the script writes the
\* index file or fails; call returns its exit status, which the cell ignores.
\* The script cannot write the file where idx_files is no directory or
\* train.idx is a directory.
\* variant: the script is called without the isfile test
IfFileCall_Always ==
    /\ ipc = "if_file"
    /\ calls' = calls + 1
    /\ \E ok \in BOOLEAN :
          /\ ok => (idx_dir = "dir" /\ idx_kind # "dir")
          /\ IF ok
             THEN /\ idx_kind' = "file"
                  /\ idx_gen' = calls'
                  /\ created' = created + 1
                  /\ ev' = Append(ev, "call_created")
             ELSE /\ UNCHANGED <<idx_kind, idx_gen, created>>
                  /\ ev' = Append(ev, "call_failed")
    /\ ipc' = "idle"
    /\ UNCHANGED <<idx_dir, execs, dir0, kind0, gen0>>
    /\ UNCHANGED testVars
IfFileCall ==
    /\ ipc = "if_file"
    /\ ~os_path_isfile(idx_kind)
    /\ calls' = calls + 1
    /\ \E ok \in BOOLEAN :
          /\ ok => (idx_dir = "dir" /\ idx_kind # "dir")
          /\ IF ok
             THEN /\ idx_kind' = "file"
                  /\ idx_gen' = calls'
                  /\ created' = created + 1
                  /\ ev' = Append(ev, "call_created")
             ELSE /\ UNCHANGED <<idx_kind, idx_gen, created>>
                  /\ ev' = Append(ev, "call_failed")
    /\ ipc' = "idle"
    /\ UNCHANGED <<idx_dir, execs, dir0, kind0, gen0>>
    /\ UNCHANGED testVars

-----------------------------------------------------------------------------
\* ---- specifications

\* the index-setup state while the self-test cell runs: the index file made
IdxMade ==
    /\ ipc = "idle" /\ idx_dir = "dir" /\ idx_kind = "file" /\ idx_gen = 0
    /\ execs = 0 /\ calls = 0 /\ created = 0 /\ ev = <<>>
    /\ dir0 = "dir" /\ kind0 = "file" /\ gen0 = 0

\* the self-test cell
Init == TestInit /\ IdxMade
Next ==
    \/ PrintRun
    \/ GetBatch
    \/ SessionEnter
    \/ SessRun
    \/ CheckLabel
    \/ LabelsDone
    \/ SessionExit
    \/ SessionExitRaise
    \/ PrintOk
    \/ CellEnd
Spec == Init /\ [][Next]_vars

\* the interpreter takes the next step of the cell whenever there is one
FairSpec == Spec /\ WF_vars(Next)

\* the index-setup cell, executed up to MaxExecutions times
IdxStart == IdxInit /\ TestInit
IdxNext ==
    \/ CellStart
    \/ IfDir
    \/ IfFileSkip
    \/ IfFileCall
IdxSpec == IdxStart /\ [][IdxNext]_vars

-----------------------------------------------------------------------------
\* ---- properties

\* the last line printed is line
LastLineIs(line) == out # <<>> /\ out[Len(out)] = line

\* a label value that is integral and lies in [lo, hi]
ValidLabel(x, lo, hi) ==
    /\ x[1] = "num"
    /\ x[2] % 2 = 0
    /\ 2 * lo <= x[2]
    /\ x[2] <= 2 * hi

\* the inclusive label bounds stated for each pipeline type
StatedRange(name) ==
    CASE name = "MXNetReaderPipeline" -> <<0, 999>>
      [] name = "CaffeReadPipeline" -> <<0, 999>>
      [] name = "FileReadPipeline" -> <<0, 1>>
      [] name = "TFRecordPipeline" -> <<1, 1000>>

TypeNames == {"MXNetReaderPipeline", "CaffeReadPipeline",
              "FileReadPipeline", "TFRecordPipeline"}

\* C1: when "OK : <name>" has just been printed for a pipeline type, that
\* type had ITERATIONS session runs, each of its ITERATIONS * N label
\* batches was taken, and every label value taken for it is integral and
\* lies within the bounds stated for the type.
C1_OkOnlyIfAllLabelsValid ==
    \A name \in TypeNames :
        LastLineIs(OkLine(name)) =>
            /\ runs = ITERATIONS
            /\ taken = ITERATIONS * N
            /\ \A x \in seen :
                   ValidLabel(x, StatedRange(name)[1], StatedRange(name)[2])

\* C1 witness: OK is printed for TFRecordPipeline after both bounds of its
\* range were seen as labels
C1_Witness ==
    /\ LastLineIs(OkLine("TFRecordPipeline"))
    /\ seen = {Whole(1), Whole(1000)}

\* a label value taken for the current pipe type is not integral or lies
\* outside the type's stated bounds
SomeLabelInvalid ==
    /\ t >= 1
    /\ \E x \in seen :
           ~ValidLabel(x, StatedRange(pipe_name[1])[1],
                       StatedRange(pipe_name[1])[2])

\* a step taken once the exception is raised changes nothing the cell shows
AbortedStaysAborted ==
    pc \in {"raise", "aborted"} =>
        /\ pc' \in {"raise", "aborted"}
        /\ total' = total
        /\ runs' = runs
        /\ taken' = taken
        /\ out' = out
        /\ t' = t

\* C2: once a label batch fails a check the cell is on its way out with the
\* exception: from then on there is no further session run, no further
\* line is printed (no OK for the type being tested, no RUN of a later
\* type), the loop does not resume, and the type's RUN line stays the last
\* line printed.
C2_FailedAssertAborts ==
    /\ [](SomeLabelInvalid =>
            /\ pc \in {"raise", "aborted"}
            /\ err # "none"
            /\ LastLineIs(RunLine(pipe_name[1])))
    /\ [][AbortedStaysAborted]_vars

\* C2 witness: the cell ended with a failed upper-bound check in the middle
\* of the third pipeline type
C2_Witness ==
    /\ pc = "aborted"
    /\ err = "upper"
    /\ t = 3
    /\ runs = 2
    /\ SomeLabelInvalid

\* the lines the cell prints when no assertion fails
AllLines ==
    <<RunLine("MXNetReaderPipeline"), OkLine("MXNetReaderPipeline"),
      RunLine("CaffeReadPipeline"), OkLine("CaffeReadPipeline"),
      RunLine("FileReadPipeline"), OkLine("FileReadPipeline"),
      RunLine("TFRecordPipeline"), OkLine("TFRecordPipeline")>>

IsRun(line) == line[1] = "RUN: "
IsOk(line) == line[1] = "OK : "

\* C3: the RUN lines come in the fixed order of the four types; every OK
\* line directly follows the RUN line of the same type; the number of OK
\* lines is the number of RUN lines or one less; and a cell that ends
\* without a failed assertion has printed exactly the eight lines.
C3_StatusLines ==
    /\ LET r == SelectSeq(out, IsRun)
       IN  /\ Len(r) <= 4
           /\ \A j \in 1..Len(r) : r[j] = AllLines[2 * j - 1]
    /\ \A j \in 1..Len(out) : IsRun(out[j]) \/ IsOk(out[j])
    /\ \A j \in 1..Len(out) :
          IsOk(out[j]) => j > 1 /\ out[j - 1] = RunLine(out[j][2])
    /\ Len(SelectSeq(out, IsOk)) \in
          {Len(SelectSeq(out, IsRun)), Len(SelectSeq(out, IsRun)) - 1}
    /\ pc = "done" => out = AllLines

\* C3 witness: the cell ended normally with eight lines printed
C3_Witness == pc = "done" /\ Len(out) = 8 /\ err = "none"

\* the cell has ended, normally or with the exception
Finished == pc \in {"done", "aborted"}

\* a session run has been made and the inner loop over its labels is over
RunOver == total > 0 /\ pc # "for_label"

\* the counts of session runs stay within ITERATIONS per type and
\* 4 * ITERATIONS for the cell, and a type whose OK is printed had exactly
\* ITERATIONS runs
RunCounts ==
    /\ runs <= ITERATIONS
    /\ total <= 4 * ITERATIONS
    /\ \A name \in TypeNames : LastLineIs(OkLine(name)) => runs = ITERATIONS
    /\ pc = "done" => total = 4 * ITERATIONS
    /\ test_batch # <<>> => Len(test_batch[2]) = N

\* C4 as stated: ... and every session run has all N of its label batches
\* checked.
C4_Original ==
    /\ RunCounts
    /\ RunOver => checked = N

\* C4 amended: exactly ITERATIONS session runs per type when no assertion
\* fails and never more, at most 4 * ITERATIONS in the cell; a session run
\* yields N label batches, which are checked in order up to and including
\* the first that fails an assertion (all N when none fails); and the cell
\* finishes.
C4_RunsBoundedAndTerminates ==
    /\ [](/\ RunCounts
          /\ checked <= N
          /\ (RunOver /\ pc \notin {"raise", "aborted"}) => checked = N
          /\ pc \in {"raise", "aborted"} => checked = k + 1)
    /\ <>Finished

\* C4 witness: the cell ended normally after 4 * ITERATIONS session runs,
\* the last with all N label batches checked
C4_Witness == pc = "done" /\ total = 4 * ITERATIONS /\ checked = N

\* the current execution of the index-setup cell invoked the script
Invoked == \E j \in 1..Len(ev) : ev[j] \in {"call_created", "call_failed"}
\* the current execution of the index-setup cell created idx_files
MadeDir == \E j \in 1..Len(ev) : ev[j] = "mkdir"
\* an execution of the index-setup cell has ended
CellOver == ipc = "idle" /\ execs >= 1

\* C5: an execution of the index-setup cell invokes the script if and only
\* if the index file was absent when it started; with the file there the
\* script is not invoked and the file is unchanged; idx_files is created
\* only when it did not exist, and before the script is invoked.
C5_IndexIffAbsent ==
    /\ Invoked => kind0 # "file"
    /\ CellOver => (Invoked <=> kind0 # "file")
    /\ kind0 = "file" => (~Invoked /\ idx_kind = "file" /\ idx_gen = gen0)
    /\ MadeDir => (dir0 = "absent" /\ ev[1] = "mkdir")
    /\ \A j \in 2..Len(ev) : ev[j] # "mkdir"
    /\ Len(ev) <= 2

\* C5 witness: an execution that found nothing created the directory and
\* then invoked the script
C5_Witness ==
    /\ CellOver
    /\ dir0 = "absent"
    /\ ev = <<"mkdir", "call_created">>

\* C6 as stated: whatever the script's outcome it is invoked at most once,
\* and after the first execution of the cell the index file exists.
C6_Original ==
    /\ calls <= 1
    /\ CellOver => idx_kind = "file"

\* a step taken while the index file exists invokes nothing and keeps it
FileKept ==
    idx_kind = "file" =>
        (calls' = calls /\ idx_kind' = "file" /\ idx_gen' = idx_gen)

\* C6 amended: the script is invoked at most once per execution and never
\* once the index file exists, so at most one invocation produces the file
\* and the file it wrote stays; after an execution the index file exists
\* exactly when it existed before or the invocation produced it (a failed
\* invocation leaves it absent, and the next execution invokes the script
\* again).
C6_OneTimeOnceProduced ==
    /\ [](/\ created <= 1
          /\ calls <= execs
          /\ CellOver =>
                (idx_kind = "file" <=>
                    (kind0 = "file" \/ ev[Len(ev)] = "call_created")))
    /\ [][FileKept]_vars

\* C6 witness: the script failed twice, then produced the file, and a later
\* execution did not invoke it
C6_Witness ==
    /\ CellOver
    /\ calls = 3
    /\ created = 1
    /\ execs = 4
    /\ idx_kind = "file"
    /\ idx_gen = 3

\* get_batch_test_dali has returned for the current pipe type
Built == t >= 1 /\ pc # "get_batch"

\* C7: N pipelines of the current type with device ids 0..N-1 in order, and
\* N image and N label tensors in device order, the d-th bound to the
\* pipeline of device id d, placed on device d, the label tensor of the
\* label dtype of the pipe-type tuple.
C7_OnePipelinePerDevice ==
    Built =>
        /\ Len(pipes) = N
        /\ \A d \in 0..(N - 1) :
              /\ pipes[d + 1].cls = pipe_types[t][1]
              /\ pipes[d + 1].base.device_id = d
        /\ Cardinality({pipes[j].base.device_id : j \in 1..Len(pipes)}) = N
        /\ Len(test_batch) = 2
        /\ Len(test_batch[1]) = N
        /\ Len(test_batch[2]) = N
        /\ \A d \in 0..(N - 1) : \A s \in 1..2 :
              /\ test_batch[s][d + 1].pipeline = pipes[d + 1]
              /\ test_batch[s][d + 1].pipeline.base.device_id = d
              /\ test_batch[s][d + 1].device_id = d
              /\ test_batch[s][d + 1].placed = d
        /\ \A d \in 0..(N - 1) :
              /\ test_batch[1][d + 1].tensor = "image"
              /\ test_batch[2][d + 1].tensor = "label"
              /\ test_batch[2][d + 1].dtype = pipe_types[t][2]

\* C7 witness: the pipelines and tensors of the last pipe type are built
C7_Witness ==
    /\ pc = "with_enter"
    /\ t = 4
    /\ Len(pipes) = N
    /\ pipes[N].base.device_id = N - 1
    /\ test_batch[2][N].dtype = "int64"

\* the operators on the path from a reader output to a data node, following
\* the first positional input
RECURSIVE ImagePath(_)
ImagePath(node) ==
    IF node.in = <<>> THEN <<node.op>>
    ELSE Append(ImagePath(node.in[1]), node.op)

\* the reader operator of each pipeline class
ReaderOf(name) ==
    CASE name = "MXNetReaderPipeline" -> "MXNetReader"
      [] name = "CaffeReadPipeline" -> "CaffeReader"
      [] name = "FileReadPipeline" -> "FileReader"
      [] name = "TFRecordPipeline" -> "TFRecordReader"

\* the reader output that carries the labels
LabelOutputOf(name) ==
    IF name = "TFRecordPipeline" THEN "image/class/label" ELSE "1"

\* C8: the graph of every pipeline built is reader -> ImageDecoder ->
\* Resize -> CropMirrorNormalize on the image path, each once, and its
\* labels output is the reader's labels output passed through the transfer
\* to the GPU and nothing else.
C8_GraphShape ==
    \A j \in 1..Len(pipes) :
        LET g == define_graph(pipes[j])
            rd == ReaderOf(pipes[j].cls)
        IN  /\ Len(g) = 2
            /\ ImagePath(g[1]) =
                  <<rd, "ImageDecoder", "Resize", "CropMirrorNormalize">>
            /\ g[2].op = "gpu()"
            /\ Len(g[2].in) = 1
            /\ g[2].in[1].op = rd
            /\ g[2].in[1].in = <<>>
            /\ g[2].in[1].out = LabelOutputOf(pipes[j].cls)
            /\ pipes[j].input.op = rd

\* C8 witness: pipelines of the TFRecord class are built
C8_Witness ==
    /\ Len(pipes) = N
    /\ pipes[1].cls = "TFRecordPipeline"
    /\ define_graph(pipes[1])[2].in[1].out = "image/class/label"

Sharded == {"MXNetReaderPipeline", "CaffeReadPipeline"}

\* C9: the N pipelines of a sharded reader have num_shards = N and
\* shard_id = device_id, pairwise distinct, within 0..num_shards-1 and
\* covering 0..N-1; those of FileReadPipeline and TFRecordPipeline have no
\* shard parameter and the same reader options.
C9_Sharding ==
    \A j \in 1..Len(pipes) :
        IF pipes[j].cls \in Sharded
        THEN /\ pipes[j].input.num_shards = N
             /\ pipes[j].input.shard_id = pipes[j].base.device_id
             /\ 0 <= pipes[j].input.shard_id
             /\ pipes[j].input.shard_id < pipes[j].input.num_shards
             /\ \A h \in 1..Len(pipes) :
                   h # j => pipes[h].input.shard_id # pipes[j].input.shard_id
             /\ {pipes[h].input.shard_id : h \in 1..Len(pipes)} = 0..(N - 1)
        ELSE /\ "shard_id" \notin DOMAIN pipes[j].input
             /\ "num_shards" \notin DOMAIN pipes[j].input
             /\ pipes[j].input = pipes[1].input

\* C9 witness: the pipelines of the MXNet reader are built, the last of
\* them on shard N - 1
C9_Witness ==
    /\ Len(pipes) = N
    /\ pipes[N].cls = "MXNetReaderPipeline"
    /\ pipes[N].input.shard_id = N - 1

\* C10: at most one session is open; it is the current type's, opened after
\* the type's RUN line; every session run is inside it; it is closed before
\* the type's OK line, before the next type starts and when the cell has
\* ended, normally or with the exception.
C10_OneSession ==
    /\ Cardinality(open) <= 1
    /\ open \subseteq {t}
    /\ open # {} => t >= 1 /\ LastLineIs(RunLine(pipe_name[1]))
    /\ pc \in {"for_i", "for_label", "raise"} => open = {t}
    /\ pc \in {"for_pipe", "get_batch", "with_enter", "print_ok",
               "done", "aborted"} => open = {}

\* C10 witness: the cell ended with a failed assertion and no session open
C10_Witness ==
    /\ pc = "aborted"
    /\ err = "integral"
    /\ open = {}
    /\ total >= 1

=============================================================================
